---- MODULE Spec2Model ----
(***************************************************************************)
(* Model of the info plugin of mkdocs-material (kamilkrzyskow fork).       *)
(*                                                                         *)
(* The repository holds two copies of the plugin:                          *)
(*   src/plugins/info/plugin.py       (variant "src": exclusion patterns   *)
(*                                     and a walk of the working directory)*)
(*   material/plugins/info/plugin.py  (variant "material": root_dir,       *)
(*                                     existence checks, get_files)        *)
(* Both are modelled; the variable `variant` says which one is running.    *)
(*                                                                         *)
(* Strings are sequences of one-character strings, so that str.startswith, *)
(* str.replace, os.path.* and fnmatch are computed character by character. *)
(***************************************************************************)
EXTENDS Integers, Sequences, FiniteSets, TLC

\* ---------------------------------------------------------------------------
\* Strings
\* ---------------------------------------------------------------------------

Empty == << >>

Sep == "/"

\* str.startswith(prefix)
StartsWith(s, prefix) ==
    /\ Len(prefix) <= Len(s)
    /\ SubSeq(s, 1, Len(prefix)) = prefix

\* str.endswith(suffix)
EndsWith(s, suffix) ==
    /\ Len(suffix) <= Len(s)
    /\ SubSeq(s, Len(s) - Len(suffix) + 1, Len(s)) = suffix

\* str.find(sub): 1-based index of the first occurrence, 0 when absent
Find(s, sub) ==
    LET hits == { i \in 1..(Len(s) - Len(sub) + 1) :
                    SubSeq(s, i, i + Len(sub) - 1) = sub }
    IN  IF hits = {} THEN 0
        ELSE CHOOSE i \in hits : \A j \in hits : i <= j

\* str.replace(old, "", 1): drop the first occurrence of old (old is not empty)
ReplaceFirst(s, old) ==
    LET i == Find(s, old)
    IN  IF i = 0 THEN s
        ELSE SubSeq(s, 1, i - 1) \o SubSeq(s, i + Len(old), Len(s))

\* str.rfind("/"): 1-based index of the last separator, 0 when absent
RFindSep(s) ==
    LET hits == { i \in 1..Len(s) : s[i] = Sep }
    IN  IF hits = {} THEN 0
        ELSE CHOOSE i \in hits : \A j \in hits : j <= i

\* str.split("/")
RECURSIVE SplitSep(_)
SplitSep(s) ==
    LET i == Find(s, <<Sep>>)
    IN  IF i = 0 THEN <<s>>
        ELSE <<SubSeq(s, 1, i - 1)>> \o SplitSep(SubSeq(s, i + 1, Len(s)))

\* "/".join(parts)
RECURSIVE JoinSep(_)
JoinSep(parts) ==
    IF parts = << >> THEN Empty
    ELSE IF Len(parts) = 1 THEN parts[1]
    ELSE parts[1] \o <<Sep>> \o JoinSep(Tail(parts))

\* ---------------------------------------------------------------------------
\* posixpath
\* ---------------------------------------------------------------------------

\* os.path.isabs
IsAbs(p) == StartsWith(p, <<Sep>>)

\* os.path.join(a, b)
PathJoin(a, b) ==
    IF IsAbs(b) THEN b
    ELSE IF a = Empty \/ EndsWith(a, <<Sep>>) THEN a \o b
    ELSE a \o <<Sep>> \o b

\* str.rstrip("/")
RECURSIVE RStripSep(_)
RStripSep(s) ==
    IF s # Empty /\ s[Len(s)] = Sep THEN RStripSep(SubSeq(s, 1, Len(s) - 1))
    ELSE s

\* os.path.dirname
Dirname(p) ==
    LET head == SubSeq(p, 1, RFindSep(p))
    IN  IF head # Empty /\ RStripSep(head) # Empty THEN RStripSep(head)
        ELSE head

\* the component loop of os.path.normpath
RECURSIVE NormComps(_, _, _)
NormComps(comps, acc, abs) ==
    IF comps = << >> THEN acc
    ELSE LET c == Head(comps)
             dotdot == <<".", ".">>
         IN  IF c = Empty \/ c = <<".">>
                 THEN NormComps(Tail(comps), acc, abs)
             ELSE IF c # dotdot
                     \/ (~abs /\ acc = << >>)
                     \/ (acc # << >> /\ acc[Len(acc)] = dotdot)
                 THEN NormComps(Tail(comps), Append(acc, c), abs)
             ELSE IF acc # << >>
                 THEN NormComps(Tail(comps), SubSeq(acc, 1, Len(acc) - 1), abs)
             ELSE NormComps(Tail(comps), acc, abs)

\* os.path.normpath (a path starting with exactly two slashes is not modelled)
Normpath(p) ==
    IF p = Empty THEN <<".">>
    ELSE LET abs  == IsAbs(p)
             body == JoinSep(NormComps(SplitSep(p), << >>, abs))
         IN  IF abs THEN <<Sep>> \o body
             ELSE IF body = Empty THEN <<".">>
             ELSE body

\* os.path.abspath, given the process working directory
Abspath(p, wd) == Normpath(PathJoin(wd, p))

\* the components of an absolute normalized path
Comps(p) == SelectSeq(SplitSep(p), LAMBDA c : c # Empty)

\* length of the common prefix of two component lists
RECURSIVE CommonLen(_, _)
CommonLen(a, b) ==
    IF a = << >> \/ b = << >> \/ Head(a) # Head(b) THEN 0
    ELSE 1 + CommonLen(Tail(a), Tail(b))

\* os.path.relpath(path, start), given the process working directory
Relpath(path, start, wd) ==
    LET sl  == Comps(Abspath(start, wd))
        pl  == Comps(Abspath(path, wd))
        i   == CommonLen(sl, pl)
        ups == [k \in 1..(Len(sl) - i) |-> <<".", ".">>]
        rel == ups \o SubSeq(pl, i + 1, Len(pl))
    IN  IF rel = << >> THEN <<".">> ELSE JoinSep(rel)

\* ---------------------------------------------------------------------------
\* fnmatch.fnmatchcase
\*
\* The alphabet of the model holds no "-", "\" or "^", so a bracket expression
\* is a plain set of characters, negated by a leading "!".
\* ---------------------------------------------------------------------------

\* fnmatch.translate, the scan for the end of a bracket expression: pat starts
\* with "[" and the result is the index of its closing "]", or 0 when there is
\* none (the "[" is then an ordinary character)
ClassEnd(pat) ==
    LET n  == Len(pat)
        j1 == IF 2 <= n /\ pat[2] = "!" THEN 3 ELSE 2
        j2 == IF j1 <= n /\ pat[j1] = "]" THEN j1 + 1 ELSE j1
        hits == { k \in j2..n : pat[k] = "]" }
    IN  IF hits = {} THEN 0
        ELSE CHOOSE k \in hits : \A l \in hits : k <= l

\* does character c belong to the bracket expression pat[1..end]
InClass(c, pat, end) ==
    LET stuff   == SubSeq(pat, 2, end - 1)
        negated == stuff[1] = "!"
        members == IF negated THEN { stuff[k] : k \in 2..Len(stuff) }
                   ELSE { stuff[k] : k \in 1..Len(stuff) }
    IN  IF negated THEN c \notin members ELSE c \in members

\* fnmatch.fnmatchcase(name, pat): the whole name matches the pattern
RECURSIVE FnMatchCase(_, _)
FnMatchCase(name, pat) ==
    IF pat = Empty THEN name = Empty
    ELSE LET c == Head(pat)
         IN  CASE c = "*" ->
                    \/ FnMatchCase(name, Tail(pat))
                    \/ /\ name # Empty
                       /\ FnMatchCase(Tail(name), pat)
               [] c = "?" ->
                    /\ name # Empty
                    /\ FnMatchCase(Tail(name), Tail(pat))
               [] c = "[" /\ ClassEnd(pat) # 0 ->
                    /\ name # Empty
                    /\ InClass(Head(name), pat, ClassEnd(pat))
                    /\ FnMatchCase(Tail(name),
                                   SubSeq(pat, ClassEnd(pat) + 1, Len(pat)))
               [] OTHER ->
                    /\ name # Empty
                    /\ Head(name) = c
                    /\ FnMatchCase(Tail(name), Tail(pat))

\* InfoPlugin._is_excluded, over the pattern list self.exclusion_patterns
IsExcluded(posix_path, patterns) ==
    \E k \in 1..Len(patterns) : FnMatchCase(posix_path, patterns[k])

\* ---------------------------------------------------------------------------
\* The filesystem: fs.dirs and fs.files are sets of absolute normalized paths,
\* fs.yaml maps a configuration file to what the YAML parser makes of it.
\* ---------------------------------------------------------------------------

\* os.path.isfile
IsFile(p, filesys, wd) == Abspath(p, wd) \in filesys.files

\* os.path.isdir
IsDir(p, filesys, wd) == Abspath(p, wd) \in filesys.dirs

\* os.path.exists
Exists(p, filesys, wd) == IsFile(p, filesys, wd) \/ IsDir(p, filesys, wd)

\* _resolve_pattern with the separator appended to directories only, not to
\* paths that do not exist: what C6 tells apart
ResolvePatternDirsOnly(abspath, filesys, wd) ==
    LET path == ReplaceFirst(abspath, wd)
    IN  IF path = Empty THEN <<Sep>>
        ELSE IF IsDir(abspath, filesys, wd) THEN path \o <<Sep>>
        ELSE path

\* _resolve_pattern. os.sep is "/" on POSIX, where replace(os.sep, "/") changes
\* nothing.
ResolvePattern(abspath, filesys, wd) ==
    LET path == ReplaceFirst(abspath, wd)
    IN  IF path = Empty THEN <<Sep>>
        ELSE IF ~IsFile(abspath, filesys, wd) THEN path \o <<Sep>>
        ELSE path

\* ---------------------------------------------------------------------------
\* Python values: a dict is its items (a function from keys), a list its
\* elements, an exception that propagates is a "raise".
\* ---------------------------------------------------------------------------

PyDict(items) == [type |-> "dict", items |-> items]

PyList(elems) == [type |-> "list", elems |-> elems]

PyRaise(exc) == [type |-> "raise", exc |-> exc]

EmptyDict == PyDict([k \in {} |-> Empty])

\* the interpreter's recursion limit, in calls of _load_yaml
MaxRecursion == 5

\* yaml.load(source, ...) or {}, with yaml.YAMLError caught: the document of a
\* configuration file is a mapping, or nothing at all
ParseYaml(path, filesys) ==
    LET doc == filesys.yaml[path]
    IN  IF doc.parse = "error" THEN EmptyDict
        ELSE IF doc.parse = "empty" THEN EmptyDict
        ELSE PyDict(doc.data)

\* "result if result else {}": an empty result becomes a new empty dict
OrEmptyDict(result) ==
    IF result.type = "dict" /\ DOMAIN result.items = {} THEN EmptyDict
    ELSE result

\* _load_yaml with the list built from the parent down, "[*parent, result]":
\* the order C10 rules out
RECURSIVE LoadYamlAncestorFirst(_, _, _, _)
LoadYamlAncestorFirst(source_path, filesys, wd, depth) ==
    IF depth > MaxRecursion THEN PyRaise("RecursionError")
    ELSE IF IsDir(source_path, filesys, wd) THEN PyRaise("IsADirectoryError")
    ELSE IF ~IsFile(source_path, filesys, wd) THEN PyRaise("FileNotFoundError")
    ELSE
    LET result == ParseYaml(Abspath(source_path, wd), filesys)
    IN  IF "INHERIT" \in DOMAIN result.items
        THEN LET relpath == result.items.INHERIT
                 abspath == Normpath(PathJoin(Dirname(source_path), relpath))
             IN  IF Exists(abspath, filesys, wd)
                 THEN LET rewritten ==
                              PyDict([result.items EXCEPT !.INHERIT = abspath])
                          parent ==
                              LoadYamlAncestorFirst(abspath, filesys, wd,
                                                    depth + 1)
                      IN  CASE parent.type = "raise" -> parent
                            [] parent.type = "list" ->
                                 PyList(parent.elems \o <<rewritten>>)
                            [] parent.type = "dict" ->
                                 PyList(<<parent, rewritten>>)
                 ELSE OrEmptyDict(result)
        ELSE OrEmptyDict(result)

\* _load_yaml without the "except yaml.YAMLError": the error of the parser
\* leaves the function, which C12 rules out
RECURSIVE LoadYamlPropagates(_, _, _, _)
LoadYamlPropagates(source_path, filesys, wd, depth) ==
    IF depth > MaxRecursion THEN PyRaise("RecursionError")
    ELSE IF IsDir(source_path, filesys, wd) THEN PyRaise("IsADirectoryError")
    ELSE IF ~IsFile(source_path, filesys, wd) THEN PyRaise("FileNotFoundError")
    ELSE IF filesys.yaml[Abspath(source_path, wd)].parse = "error"
    THEN PyRaise("YAMLError")
    ELSE
    LET result == ParseYaml(Abspath(source_path, wd), filesys)
    IN  IF "INHERIT" \in DOMAIN result.items
        THEN LET relpath == result.items.INHERIT
                 abspath == Normpath(PathJoin(Dirname(source_path), relpath))
             IN  IF Exists(abspath, filesys, wd)
                 THEN LET rewritten ==
                              PyDict([result.items EXCEPT !.INHERIT = abspath])
                          parent ==
                              LoadYamlPropagates(abspath, filesys, wd,
                                                 depth + 1)
                      IN  CASE parent.type = "raise" -> parent
                            [] parent.type = "list" ->
                                 PyList(<<rewritten>> \o parent.elems)
                            [] parent.type = "dict" ->
                                 PyList(<<rewritten, parent>>)
                 ELSE OrEmptyDict(result)
        ELSE OrEmptyDict(result)

\* _load_yaml (src) / _yaml_load (material); depth counts the nested calls
RECURSIVE LoadYaml(_, _, _, _)
LoadYaml(source_path, filesys, wd, depth) ==
    IF depth > MaxRecursion THEN PyRaise("RecursionError")
    ELSE IF IsDir(source_path, filesys, wd) THEN PyRaise("IsADirectoryError")
    ELSE IF ~IsFile(source_path, filesys, wd) THEN PyRaise("FileNotFoundError")
    ELSE
    LET result == ParseYaml(Abspath(source_path, wd), filesys)
    IN  IF "INHERIT" \in DOMAIN result.items
        THEN LET relpath == result.items.INHERIT
                 abspath == Normpath(PathJoin(Dirname(source_path), relpath))
             IN  IF Exists(abspath, filesys, wd)
                 THEN LET rewritten ==
                              PyDict([result.items EXCEPT !.INHERIT = abspath])
                          parent ==
                              LoadYaml(abspath, filesys, wd, depth + 1)
                      IN  CASE parent.type = "raise" -> parent
                            [] parent.type = "list" ->
                                 PyList(<<rewritten>> \o parent.elems)
                            [] parent.type = "dict" ->
                                 PyList(<<rewritten, parent>>)
                 ELSE OrEmptyDict(result)
        ELSE OrEmptyDict(result)

\* ---------------------------------------------------------------------------
\* The label of the bug report
\* ---------------------------------------------------------------------------

\* version("mkdocs-material"), the installed version
Present == <<"9">>

\* \w of the regular expressions of slugify, within the alphabet of the model
WordChars == {"a", "b", "A", "9", "z"}

\* str.lower
Lower(c) == IF c = "A" THEN "a" ELSE c

\* os.path.splitext(label)[0]: the extension starts at the last dot of the
\* last component, leading dots of that component not counted
SplitextRoot(p) ==
    LET sepIndex == RFindSep(p)
        dots     == { i \in (sepIndex + 1)..Len(p) : p[i] = "." }
        dotIndex == IF dots = {} THEN 0
                    ELSE CHOOSE i \in dots : \A j \in dots : j <= i
        named    == \E k \in (sepIndex + 1)..(dotIndex - 1) : p[k] # "."
    IN  IF dotIndex > sepIndex /\ named THEN SubSeq(p, 1, dotIndex - 1)
        ELSE p

\* str.strip
RECURSIVE Strip(_)
Strip(s) ==
    IF s # Empty /\ Head(s) = " " THEN Strip(Tail(s))
    ELSE IF s # Empty /\ s[Len(s)] = " "
        THEN Strip(SubSeq(s, 1, Len(s) - 1))
    ELSE s

\* re.sub(r"[-\s]+", "-", value)
RECURSIVE CollapseSeparators(_)
CollapseSeparators(s) ==
    IF s = Empty THEN Empty
    ELSE IF Head(s) \in {" ", "-"}
        THEN IF Len(s) >= 2 /\ s[2] \in {" ", "-"}
             THEN CollapseSeparators(Tail(s))
             ELSE <<"-">> \o CollapseSeparators(Tail(s))
    ELSE <<Head(s)>> \o CollapseSeparators(Tail(s))

\* markdown.extensions.toc.slugify(value, "-")
Slugify(value) ==
    LET kept    == SelectSeq(value, LAMBDA c : c \in WordChars \cup {" ", "-"})
        lowered == [k \in 1..Len(Strip(kept)) |-> Lower(Strip(kept)[k])]
    IN  CollapseSeparators(lowered)

\* lines 158-160 (src): the name of the archive and of its top-level folder
ExampleName(label) == Present \o <<"-">> \o Slugify(SplitextRoot(label))

\* ---------------------------------------------------------------------------
\* The archive: a sequence of entries [name, source]
\* ---------------------------------------------------------------------------

RECURSIVE LStripSep(_)
LStripSep(s) ==
    IF s # Empty /\ Head(s) = Sep THEN LStripSep(Tail(s)) ELSE s

\* zipfile.ZipInfo.from_file: the name an entry of ZipFile.write is stored at
ZipArcname(arcname) == LStripSep(Normpath(arcname))

\* ZipFile.write(path, arcname)
ZipWriteEntry(path, arcname, wd) ==
    [name |-> ZipArcname(arcname), source |-> Abspath(path, wd)]

\* ZipFile.writestr(name, data): the name is stored as given
ZipWritestrEntry(name) == [name |-> name, source |-> <<"<", "s", "t", "r", ">">>]

RequirementsLock == <<"r", ".", "l">>

PlatformJson == <<"p", ".", "j">>

\* lines 204-230 (src): the two generated entries
SyntheticEntries(example) ==
    << ZipWritestrEntry(PathJoin(example, RequirementsLock)),
       ZipWritestrEntry(PathJoin(example, PlatformJson)) >>

\* a set as a sequence, in an order fixed per set (os.scandir has its own)
RECURSIVE SetToSeq(_)
SetToSeq(S) ==
    IF S = {} THEN << >>
    ELSE LET x == CHOOSE y \in S : TRUE
         IN  <<x>> \o SetToSeq(S \ {x})

\* ---------------------------------------------------------------------------
\* State
\* ---------------------------------------------------------------------------

VARIABLES
    variant,            \* which copy of the plugin runs: "src" or "material"
    plugin,             \* self.config: the options of the plugin
    is_serve,           \* self.is_serve
    pc,                 \* the position of the run
    cwd,                \* os.getcwd()
    fs,                 \* the filesystem
    config,             \* the MkDocs configuration handed to on_config
    abs_projects_dir,   \* local of on_config (src)
    loaded_configs,     \* local of on_config: the fragments _load_yaml returned
    invalid_paths,      \* local of on_config: paths_to_validate after the loop
                        \* (src), invalid_paths (material); Unset before
    reports,            \* the guidance printed so far, one record per help call
    detected,           \* a violation has been detected in this run
    prompted,           \* input() has been called
    example,            \* local of on_config: "{version}-{slug}"
    site_dir,           \* config.site_dir, once it has been read
    exclusion_patterns, \* self.exclusion_patterns
    walked,             \* directories os.walk has yielded
    tested,             \* paths handed to _resolve_pattern and _is_excluded
    archive,            \* the entries of the in-memory archive
    zipfile,            \* the files written to disk, each [name, entries]
    exit_code,          \* the statuses sys.exit has been called with
    call,               \* the argument of a helper function called on its own
    ret                 \* what that call returned

vars == << variant, plugin, is_serve, pc, cwd, fs, config, abs_projects_dir,
           loaded_configs, invalid_paths, reports, detected, prompted, example, site_dir,
           exclusion_patterns, walked, tested, archive, zipfile, exit_code,
           call, ret >>

\* ---------------------------------------------------------------------------
\* The projects the model is run on. Names are one character long:
\*   /p        the project            /p/m    mkdocs.yml
\*   /p/d      docs                   /p/r    requirements.txt
\*   /p/s      site (with /p/s/n)     /p/b    a parent configuration
\*   /p/[s]    a directory whose      /p/c    a parent that inherits ../o/b
\*             name is a glob         /o      another directory, with its own
\*   /pq       a sibling of /p                m, b and docs d
\* ---------------------------------------------------------------------------

P(path) == <<Sep>> \o JoinSep(path)

ProjectDirs ==
    { <<Sep>>, P(<< <<"p">> >>), P(<< <<"p">>, <<"d">> >>),
      P(<< <<"p">>, <<"s">> >>), P(<< <<"p">>, <<"s">>, <<"n">> >>),
      P(<< <<"p">>, <<"[", "s", "]">> >>),
      P(<< <<"o">> >>), P(<< <<"o">>, <<"d">> >>), P(<< <<"p", "q">> >>) }

ProjectFiles ==
    { P(<< <<"p">>, <<"m">> >>), P(<< <<"p">>, <<"r">> >>),
      P(<< <<"p">>, <<"b">> >>), P(<< <<"p">>, <<"c">> >>),
      P(<< <<"p">>, <<"d">>, <<"i">> >>),
      P(<< <<"p">>, <<"s">>, <<"h">> >>),
      P(<< <<"p">>, <<"s">>, <<"n">>, <<"k">> >>),
      P(<< <<"p">>, <<"[", "s", "]">>, <<"h">> >>),
      P(<< <<"o">>, <<"m">> >>), P(<< <<"o">>, <<"b">> >>),
      P(<< <<"o">>, <<"d">>, <<"i">> >>) }

\* "mkdocs.yml" and "requirements.txt", the names the material copy looks for
MkdocsYml == <<"m">>

RequirementsTxt == <<"r">>

\* "no value", where a string (a sequence of characters) may stand
None == <<"None">>

\* "no value", where a list of strings may stand
Unset == << None >>

\* a YAML document that is a mapping: its own keys stand as site_name
YamlMap(name, inherit) ==
    IF inherit = None
    THEN [parse |-> "ok", data |-> [site_name |-> name]]
    ELSE [parse |-> "ok", data |-> [site_name |-> name, INHERIT |-> inherit]]

\* the configuration files of the project; `inherit` is the INHERIT of the
\* main configuration file
ProjectYaml(inherit) ==
    LET pm == P(<< <<"p">>, <<"m">> >>)
        om == P(<< <<"o">>, <<"m">> >>)
        pb == P(<< <<"p">>, <<"b">> >>)
        pcc == P(<< <<"p">>, <<"c">> >>)
        ob == P(<< <<"o">>, <<"b">> >>)
    IN  (pm :> YamlMap(pm, inherit)) @@ (om :> YamlMap(om, inherit))
        @@ (pb :> YamlMap(pb, None))
        @@ (pcc :> YamlMap(pcc, <<".", ".", "/", "o", "/", "b">>))
        @@ (ob :> YamlMap(ob, None))

ProjectFS(inherit) ==
    [dirs |-> ProjectDirs, files |-> ProjectFiles, yaml |-> ProjectYaml(inherit)]

\* the layouts of the project the model is run on: the configuration file
\* (as given to mkdocs), docs_dir, projects_dir of the projects plugin (None
\* when the plugin is not used) and the INHERIT of the configuration file
Layouts ==
    { \* everything inside the project
      [config_file_path |-> P(<< <<"p">>, <<"m">> >>),
       docs_dir |-> P(<< <<"p">>, <<"d">> >>),
       projects_dir |-> None, inherit |-> None],
      \* a relative configuration file, a parent inside the project, and a
      \* projects directory that is the docs directory
      [config_file_path |-> <<"m">>,
       docs_dir |-> P(<< <<"p">>, <<"d">> >>),
       projects_dir |-> <<"d">>, inherit |-> <<"b">>],
      \* a projects directory that does not exist, and a chain of three
      \* files, the last of them outside the project
      [config_file_path |-> P(<< <<"p">>, <<"m">> >>),
       docs_dir |-> P(<< <<"p">>, <<"d">> >>),
       projects_dir |-> <<"x">>, inherit |-> <<"c">>],
      \* docs and parent outside the project
      [config_file_path |-> P(<< <<"p">>, <<"m">> >>),
       docs_dir |-> P(<< <<"o">>, <<"d">> >>),
       projects_dir |-> None, inherit |-> <<".", ".", "/", "o", "/", "b">>],
      \* everything outside the project, docs and projects directory the same
      [config_file_path |-> P(<< <<"o">>, <<"m">> >>),
       docs_dir |-> P(<< <<"o">>, <<"d">> >>),
       projects_dir |-> <<"d">>, inherit |-> <<"b">>],
      \* docs in a sibling directory whose name starts with the project's
      [config_file_path |-> P(<< <<"p">>, <<"m">> >>),
       docs_dir |-> P(<< <<"p", "q">> >>),
       projects_dir |-> <<".", ".">>, inherit |-> None] }

\* root_dir of the plugin (material) with the directory the process starts in
RootDirSetups ==
    { [root_dir |-> Empty, start |-> P(<< <<"p">> >>)],
      [root_dir |-> Empty, start |-> P(<< <<"o">> >>)],
      [root_dir |-> P(<< <<"p">> >>), start |-> P(<< <<"o">> >>)],
      [root_dir |-> <<".">>, start |-> P(<< <<"o">> >>)],
      [root_dir |-> <<"d">>, start |-> P(<< <<"p", "q">> >>)],
      [root_dir |-> <<"n", "x">>, start |-> P(<< <<"p">> >>)] }

\* the paths the markdown extensions are configured with (material)
MdxPathChoices == { << >>, << <<"d">>, P(<< <<"o">>, <<"d">> >>) >> }

\* mkdocs has loaded the configuration before on_config runs: the
\* configuration file and every file it inherits from exist, and docs_dir is
\* a directory
ConfigLoads(path, filesys, wd) ==
    /\ IsFile(path, filesys, wd)
    /\ LET inherit == filesys.yaml[Abspath(path, wd)].data
       IN  "INHERIT" \in DOMAIN inherit =>
               IsFile(PathJoin(Dirname(Abspath(path, wd)), inherit.INHERIT),
                      filesys, wd)

NotRun == [fn |-> "None"]

InitRun ==
    /\ is_serve = FALSE
    /\ pc = "init"
    /\ abs_projects_dir = Empty
    /\ loaded_configs = << >>
    /\ invalid_paths = Unset
    /\ reports = << >>
    /\ detected = FALSE
    /\ prompted = FALSE
    /\ example = Empty
    /\ site_dir = None
    /\ exclusion_patterns = << >>
    /\ walked = {}
    /\ tested = {}
    /\ archive = << >>
    /\ zipfile = << >>
    /\ exit_code = << >>

Init ==
    /\ InitRun
    /\ call = NotRun
    /\ ret = NotRun
    /\ variant \in {"src", "material"}
    /\ \E setup \in RootDirSetups, en \in BOOLEAN, eos \in BOOLEAN,
          ar \in BOOLEAN, stop \in BOOLEAN :
          /\ variant = "src" => setup = [root_dir |-> Empty, start |-> P(<< <<"p">> >>)]
          /\ cwd = setup.start
          /\ plugin = [enabled |-> en, enabled_on_serve |-> eos, archive |-> ar,
                       archive_stop_on_violation |-> stop,
                       root_dir |-> setup.root_dir]
    /\ \E layout \in Layouts, mdx \in MdxPathChoices :
          /\ variant = "src" => mdx = << >>
          /\ fs = ProjectFS(layout.inherit)
          /\ ConfigLoads(layout.config_file_path, fs, cwd)
          /\ config = [config_file_path |-> layout.config_file_path,
                       docs_dir |-> layout.docs_dir,
                       projects_dir |-> IF variant = "src"
                                        THEN layout.projects_dir ELSE None,
                       mdx_paths |-> mdx]

\* ---------------------------------------------------------------------------
\* Reporting: the _help_on_* methods
\* ---------------------------------------------------------------------------

\* the exit left out of _help_on_customizations_and_exit: what C7 rules out
StopsUnlessCustomizations(kind) ==
    plugin.archive_stop_on_violation /\ kind # "customizations"

\* a _help_on_* method that exits whatever the option says: what C8 rules out
StopsAlways(kind) == TRUE

\* "Exit, unless explicitly told not to": the end of every _help_on_* method
StopsAfterHelp(kind) == plugin.archive_stop_on_violation

\* a _help_on_* method is called with `paths`; the run goes on at `next`
\* unless the method exits
AfterHelp(kind, paths, next) ==
    /\ reports' = Append(reports, [kind |-> kind, paths |-> paths])
    /\ detected' = TRUE
    /\ IF StopsAfterHelp(kind)
       THEN pc' = "exited" /\ exit_code' = <<1>>
       ELSE pc' = next /\ exit_code' = exit_code

\* nothing to report
NoHelp(next) ==
    /\ pc' = next
    /\ UNCHANGED << reports, detected, exit_code >>

\* ---------------------------------------------------------------------------
\* on_startup, and the first lines of on_config
\* ---------------------------------------------------------------------------

Commands == {"build", "serve"}

\* InfoPlugin.on_startup
OnStartup(command) ==
    /\ pc = "init"
    /\ is_serve' = (command = "serve")
    /\ pc' = "startup"
    /\ UNCHANGED << variant, invalid_paths,
                    plugin, cwd, fs, config, abs_projects_dir,
                    loaded_configs, reports, detected, prompted, example,
                    site_dir, exclusion_patterns, walked, tested, archive,
                    zipfile, exit_code, call, ret >>

\* a gate that looks at enabled only and runs the plugin on serve, which C16
\* rules out
SkipsRunIfDisabled == ~plugin.enabled

\* on_config returns at once when the plugin is disabled, or when the site is
\* served and enabled_on_serve is off
SkipsRun ==
    \/ ~plugin.enabled
    \/ (~plugin.enabled_on_serve /\ is_serve)

\* InfoPlugin.on_config, the two early returns
OnConfigGate ==
    /\ pc = "startup"
    /\ pc' = IF SkipsRun THEN "returned" ELSE "prepare"
    /\ UNCHANGED << variant, invalid_paths, plugin, is_serve, cwd, fs, config,
                    abs_projects_dir, loaded_configs, reports, detected,
                    prompted, example, site_dir, exclusion_patterns, walked,
                    tested, archive, zipfile, exit_code, call, ret >>

\* _load_yaml as on_config uses it: a single fragment is wrapped in a list
LoadedList(loaded) ==
    IF loaded.type = "list" THEN loaded.elems ELSE <<loaded>>

\* ---------------------------------------------------------------------------
\* Path validation, src
\* ---------------------------------------------------------------------------

\* cfg.get("INHERIT", "")
GetInherit(fragment) ==
    IF "INHERIT" \in DOMAIN fragment.items THEN fragment.items.INHERIT
    ELSE Empty

\* on_config (src), up to the loading of the configuration files
SrcPrepare ==
    /\ pc = "prepare"
    /\ variant = "src"
    /\ LET cfp == IF ~IsAbs(config.config_file_path)
                  THEN Normpath(PathJoin(cwd, config.config_file_path))
                  ELSE config.config_file_path
           loaded == LoadYaml(cfp, fs, cwd, 1)
       IN  /\ config' = [config EXCEPT !.config_file_path = cfp]
           /\ abs_projects_dir' =
                  IF config.projects_dir # None
                  THEN PathJoin(Dirname(cfp), config.projects_dir)
                  ELSE Empty
           /\ IF loaded.type = "raise"
              THEN pc' = "raised" /\ loaded_configs' = loaded_configs
              ELSE pc' = "validate" /\ loaded_configs' = LoadedList(loaded)
    /\ UNCHANGED << variant, invalid_paths,
                    plugin, is_serve, cwd, fs, reports, detected,
                    prompted, example, site_dir, exclusion_patterns, walked,
                    tested, archive, zipfile, exit_code, call, ret >>

\* the list paths_to_validate as it is built
SrcCandidates(cfg, projects, loaded) ==
    << cfg.config_file_path, cfg.docs_dir, projects >>
    \o [k \in 1..Len(loaded) |-> GetInherit(loaded[k])]

\* "not path or path.startswith(os.getcwd())"
Removable(path, wd) == path = Empty \/ StartsWith(path, wd)

\* list.remove(x): drop the first element equal to x
RemoveFirst(lst, x) ==
    LET hits == { k \in 1..Len(lst) : lst[k] = x }
        i    == CHOOSE k \in hits : \A l \in hits : k <= l
    IN  SubSeq(lst, 1, i - 1) \o SubSeq(lst, i + 1, Len(lst))

\* "for path in reversed(paths_to_validate): ... paths_to_validate.remove(path)"
\* The reverse iterator holds an index i into the list that is being changed,
\* and stops as soon as the index is outside the list.
RECURSIVE ReversedRemoveLoop(_, _, _)
ReversedRemoveLoop(lst, i, wd) ==
    IF i < 1 \/ i > Len(lst) THEN lst
    ELSE IF Removable(lst[i], wd)
        THEN ReversedRemoveLoop(RemoveFirst(lst, lst[i]), i - 1, wd)
    ELSE ReversedRemoveLoop(lst, i - 1, wd)

\* the violations collected into a set, each path once: what the amended C2
\* tells apart from the list of the code
RECURSIVE Deduplicated(_)
Deduplicated(lst) ==
    IF lst = << >> THEN << >>
    ELSE LET init == Deduplicated(SubSeq(lst, 1, Len(lst) - 1))
             last == lst[Len(lst)]
         IN  IF \E k \in 1..Len(init) : init[k] = last THEN init
             ELSE Append(init, last)

SrcViolationsAsSet(paths, wd) ==
    Deduplicated(SelectSeq(paths, LAMBDA path : ~Removable(path, wd)))

\* the indices the reverse iterator yields, each with the length the list
\* has when the index is read
RECURSIVE ReversedRemoveVisits(_, _, _)
ReversedRemoveVisits(lst, i, wd) ==
    IF i < 1 THEN << >>
    ELSE IF i > Len(lst) THEN << [index |-> i, length |-> Len(lst)] >>
    ELSE << [index |-> i, length |-> Len(lst)] >>
         \o (IF Removable(lst[i], wd)
             THEN ReversedRemoveVisits(RemoveFirst(lst, lst[i]), i - 1, wd)
             ELSE ReversedRemoveVisits(lst, i - 1, wd))

\* the loop run forward, "for path in paths_to_validate", over the list it
\* changes: the iterator skips the element after each removal, which C17
\* rules out
RECURSIVE ForwardRemoveLoop(_, _, _)
ForwardRemoveLoop(lst, i, wd) ==
    IF i > Len(lst) THEN lst
    ELSE IF Removable(lst[i], wd)
        THEN ForwardRemoveLoop(RemoveFirst(lst, lst[i]), i + 1, wd)
    ELSE ForwardRemoveLoop(lst, i + 1, wd)

SrcViolationsForward(paths, wd) == ForwardRemoveLoop(paths, 1, wd)

\* the paths src reports: paths_to_validate after the loop
SrcViolations(paths, wd) == ReversedRemoveLoop(paths, Len(paths), wd)

\* on_config (src), the validation of the paths
SrcValidate ==
    /\ pc = "validate"
    /\ variant = "src"
    /\ LET bad == SrcViolations(
                      SrcCandidates(config, abs_projects_dir, loaded_configs),
                      cwd)
       IN  /\ invalid_paths' = bad
           /\ IF bad # << >> THEN AfterHelp("not_in_cwd", bad, "version")
              ELSE NoHelp("version")
    /\ UNCHANGED << variant, plugin, is_serve, cwd, fs, config,
                    abs_projects_dir, loaded_configs, prompted, example,
                    site_dir, exclusion_patterns, walked, tested, archive,
                    zipfile, call, ret >>

\* ---------------------------------------------------------------------------
\* Path validation, material
\* ---------------------------------------------------------------------------

\* InfoPlugin._change_cwd: where the process ends up
\*   [to |-> dir]  os.chdir succeeded, "exit" the root_dir does not exist,
\*   "raise" os.chdir raised
ChangeCwd(config_dir, root_dir, filesys, wd) ==
    LET abspath == IF IsAbs(root_dir) THEN root_dir
                   ELSE Normpath(PathJoin(config_dir, root_dir))
    IN  IF Exists(abspath, filesys, wd)
        THEN IF IsDir(root_dir, filesys, wd)
             THEN [outcome |-> "chdir", to |-> Abspath(root_dir, wd)]
             ELSE [outcome |-> "raise", to |-> wd]
        ELSE [outcome |-> "exit", to |-> wd]

\* on_config (material), the check of the working directory
MatPrepare ==
    /\ pc = "prepare"
    /\ variant = "material"
    /\ LET config_dir == Dirname(config.config_file_path)
       IN  IF plugin.root_dir = Empty /\ ~StartsWith(config_dir, cwd)
           THEN /\ AfterHelp("bad_cwd", <<config_dir>>, "extensions")
                /\ cwd' = cwd
           ELSE IF plugin.root_dir # Empty
           THEN LET res == ChangeCwd(config_dir, plugin.root_dir, fs, cwd)
                IN  /\ cwd' = res.to
                    /\ pc' = CASE res.outcome = "chdir" -> "extensions"
                               [] res.outcome = "exit" -> "exited"
                               [] res.outcome = "raise" -> "raised"
                    /\ exit_code' = IF res.outcome = "exit" THEN <<1>>
                                    ELSE exit_code
                    /\ UNCHANGED << reports, detected >>
           ELSE /\ NoHelp("extensions")
                /\ cwd' = cwd
    /\ UNCHANGED << variant, invalid_paths,
                    plugin, is_serve, fs, config, abs_projects_dir,
                    loaded_configs, prompted, example, site_dir,
                    exclusion_patterns, walked, tested, archive, zipfile,
                    call, ret >>

\* "if not path.startswith(os.getcwd()) ... elif not os.path.exists(path)"
MatInvalid(path, filesys, wd) ==
    \/ ~StartsWith(path, wd)
    \/ ~Exists(path, filesys, wd)

\* the paths of the markdown extensions that are reported
MatInvalidExtensions(paths, filesys, wd) ==
    SelectSeq([k \in 1..Len(paths) |-> Abspath(paths[k], wd)],
              LAMBDA a : MatInvalid(a, filesys, wd))

\* on_config (material), the validation of the markdown extensions
MatExtensions ==
    /\ pc = "extensions"
    /\ variant = "material"
    /\ LET bad == MatInvalidExtensions(config.mdx_paths, fs, cwd)
       IN  IF bad # << >> THEN AfterHelp("bad_extensions", bad, "validate")
           ELSE NoHelp("validate")
    /\ UNCHANGED << variant, invalid_paths, plugin, is_serve, cwd, fs, config,
                    abs_projects_dir, loaded_configs, prompted, example,
                    site_dir, exclusion_patterns, walked, tested, archive,
                    zipfile, call, ret >>

\* the list paths_to_validate of the material copy
MatCandidates(cfg, loaded) ==
    << cfg.docs_dir >>
    \o [k \in 1..Len(SelectSeq(loaded, LAMBDA f : "INHERIT" \in DOMAIN f.items))
          |-> SelectSeq(loaded, LAMBDA f : "INHERIT" \in DOMAIN f.items)[k]
                  .items.INHERIT]

\* the list invalid_paths of the material copy
MatViolations(paths, filesys, wd) ==
    SelectSeq(paths, LAMBDA path : MatInvalid(path, filesys, wd))

\* on_config (material), the loading of the configuration files and the
\* validation of the paths
MatValidate ==
    /\ pc = "validate"
    /\ variant = "material"
    /\ LET loaded == LoadYaml(config.config_file_path, fs, cwd, 1)
       IN  IF loaded.type = "raise"
           THEN /\ pc' = "raised"
                /\ UNCHANGED << loaded_configs, invalid_paths, reports,
                                detected, exit_code >>
           ELSE /\ loaded_configs' = LoadedList(loaded)
                /\ LET bad == MatViolations(
                                  MatCandidates(config, LoadedList(loaded)),
                                  fs, cwd)
                   IN  /\ invalid_paths' = bad
                       /\ IF bad # << >>
                          THEN AfterHelp("bad_paths", bad, "version")
                          ELSE NoHelp("version")
    /\ UNCHANGED << variant, plugin, is_serve, cwd, fs, config,
                    abs_projects_dir, prompted, example, site_dir,
                    exclusion_patterns, walked, tested, archive, zipfile,
                    call, ret >>

\* ---------------------------------------------------------------------------
\* Version and customization checks (the same lines in both copies)
\* ---------------------------------------------------------------------------

\* the latest release, as the redirect of the releases page names it
LatestVersions == { <<"9">>, <<"1", "0">> }

\* on_config, "Check if we're running the latest version"
CheckVersion(current) ==
    /\ pc = "version"
    /\ IF ~StartsWith(Present, current)
       THEN AfterHelp("versions", <<Present, current>>, "archive")
       ELSE NoHelp("archive")
    /\ UNCHANGED << variant, invalid_paths, plugin, is_serve, cwd, fs, config,
                    abs_projects_dir, loaded_configs, prompted, example,
                    site_dir, exclusion_patterns, walked, tested, archive,
                    zipfile, call, ret >>

\* on_config, "Exit if archive creation is disabled"
CheckArchive ==
    /\ pc = "archive"
    /\ IF ~plugin.archive
       THEN pc' = "exited" /\ exit_code' = <<1>>
       ELSE pc' = "custom_dir" /\ exit_code' = exit_code
    /\ UNCHANGED << variant, invalid_paths, plugin, is_serve, cwd, fs, config,
                    abs_projects_dir, loaded_configs, reports, detected,
                    prompted, example, site_dir, exclusion_patterns, walked,
                    tested, archive, zipfile, call, ret >>

\* on_config, "Check that there are no overrides in place"; index is
\* config.theme.dirs.index(get_theme_dir(config.theme.name))
CheckCustomDir(index) ==
    /\ pc = "custom_dir"
    /\ IF index # 0
       THEN AfterHelp("customizations", << >>, "hooks")
       ELSE NoHelp("hooks")
    /\ UNCHANGED << variant, invalid_paths, plugin, is_serve, cwd, fs, config,
                    abs_projects_dir, loaded_configs, prompted, example,
                    site_dir, exclusion_patterns, walked, tested, archive,
                    zipfile, call, ret >>

\* on_config, "Check that there are no hooks in place"; hooks is config.hooks
CheckHooks(hooks) ==
    /\ pc = "hooks"
    /\ IF hooks # << >>
       THEN AfterHelp("customizations", << >>, "prompt")
       ELSE NoHelp("prompt")
    /\ UNCHANGED << variant, invalid_paths, plugin, is_serve, cwd, fs, config,
                    abs_projects_dir, loaded_configs, prompted, example,
                    site_dir, exclusion_patterns, walked, tested, archive,
                    zipfile, call, ret >>

\* what the author may type at the prompt
Labels == { <<"a">>, <<"A", " ", "b", ".", "z">>, <<".", ".", "/", "a">> }

\* on_config, the prompt for the name of the bug report
Prompt(label) ==
    /\ pc = "prompt"
    /\ prompted' = TRUE
    /\ example' = ExampleName(label)
    /\ pc' = IF variant = "src" THEN "patterns" ELSE "assemble"
    /\ UNCHANGED << variant, invalid_paths, plugin, is_serve, cwd, fs, config,
                    abs_projects_dir, loaded_configs, reports, detected,
                    site_dir, exclusion_patterns, walked, tested, archive,
                    zipfile, exit_code, call, ret >>

\* ---------------------------------------------------------------------------
\* Exclusion patterns and the walk, src
\* ---------------------------------------------------------------------------

\* what info.gitignore may hold (_load_exclusion_patterns)
StaticPatterns ==
    { << >>,
      << <<"/", "d", "/">> >>,
      << <<"*", "/", "k">>, <<"/", "b">> >>,
      << <<"*">> >> }

\* config.site_dir
SiteDirs ==
    { P(<< <<"p">>, <<"s">> >>), P(<< <<"p">>, <<"s">>, <<"n">> >>),
      P(<< <<"p">>, <<"[", "s", "]">> >>), P(<< <<"o">>, <<"s">> >>) }

\* site.getsitepackages(): one directory outside the project, one inside
SitePackages == << P(<< <<"o">>, <<"v">> >>), P(<< <<"p">>, <<"v">> >>) >>

\* glob.iglob(projects_config_files, root_dir = abs_projects_dir): the
\* configuration files "*/mkdocs.yml" below the projects directory, joined
\* to it
ProjectConfigFiles(projects, filesys, wd) ==
    { PathJoin(projects, f) : f \in
        { Relpath(g, projects, wd) : g \in
            { g \in filesys.files :
                \E d \in filesys.dirs :
                    /\ d # Abspath(projects, wd)
                    /\ Dirname(d) = Abspath(projects, wd)
                    /\ g = PathJoin(d, MkdocsYml) } } }

\* _get_project_config(file).site_dir: MkDocs resolves the default "site"
\* against the directory of the configuration file
ProjectSiteDir(project_config_file, wd) ==
    Abspath(PathJoin(Dirname(project_config_file), <<"s">>), wd)

\* on_config (src), lines 162-184: self.exclusion_patterns
ExclusionPatterns(static, site, packages, usesProjects, projects, filesys, wd) ==
    static
    \o (IF StartsWith(site, wd) THEN <<ResolvePattern(site, filesys, wd)>>
        ELSE << >>)
    \o [k \in 1..Len(SelectSeq(packages, LAMBDA q : StartsWith(q, wd)))
          |-> ResolvePattern(
                  SelectSeq(packages, LAMBDA q : StartsWith(q, wd))[k],
                  filesys, wd)]
    \o (IF usesProjects
        THEN LET found == SetToSeq(ProjectConfigFiles(projects, filesys, wd))
             IN  [k \in 1..Len(found)
                    |-> ResolvePattern(ProjectSiteDir(found[k], wd), filesys, wd)]
        ELSE << >>)

\* on_config (src), the loading of the exclusion patterns
SrcPatterns(static, site) ==
    /\ pc = "patterns"
    /\ variant = "src"
    /\ site_dir' = site
    /\ exclusion_patterns' =
           ExclusionPatterns(static, site, SitePackages,
                             config.projects_dir # None, abs_projects_dir,
                             fs, cwd)
    /\ pc' = "walk"
    /\ UNCHANGED << variant, invalid_paths, plugin, is_serve, cwd, fs, config,
                    abs_projects_dir, loaded_configs, reports, detected,
                    prompted, example, walked, tested, archive, zipfile,
                    exit_code, call, ret >>

\* the directories and the files os.walk lists in abs_root
SubDirs(abs_root, filesys) ==
    { d \in filesys.dirs : d # abs_root /\ Dirname(d) = abs_root }

FilesIn(abs_root, filesys) ==
    { f \in filesys.files : Dirname(f) = abs_root }

\* a walk that filters the files but descends into every directory: what C3
\* rules out
KeptDirsUnpruned(abs_root, filesys, wd, patterns) == SubDirs(abs_root, filesys)

\* "Prune the folder in-place": the subdirectories left in dirnames
KeptDirs(abs_root, filesys, wd, patterns) ==
    { d \in SubDirs(abs_root, filesys) :
        ~IsExcluded(ResolvePattern(d, filesys, wd), patterns) }

\* the files of abs_root that are written to the archive
KeptFiles(abs_root, filesys, wd, patterns) ==
    { f \in FilesIn(abs_root, filesys) :
        ~IsExcluded(ResolvePattern(f, filesys, wd), patterns) }

\* the entries written for the files of one directory
DirEntries(abs_root, filesys, wd, patterns, top) ==
    LET kept == SetToSeq(KeptFiles(abs_root, filesys, wd, patterns))
    IN  [k \in 1..Len(kept) |->
            ZipWriteEntry(Relpath(kept[k], <<".">>, wd),
                          PathJoin(top, Relpath(kept[k], <<".">>, wd)), wd)]

\* "for abs_root, dirnames, filenames in os.walk(os.getcwd())": todo is the
\* stack of directories still to be yielded, acc what the loop has done
RECURSIVE Walk(_, _, _, _, _, _)
Walk(todo, acc, filesys, wd, patterns, top) ==
    IF todo = << >> THEN acc
    ELSE LET abs_root == Head(todo)
             next == [walked |-> acc.walked \cup {abs_root},
                      tested |-> acc.tested \cup SubDirs(abs_root, filesys)
                                     \cup FilesIn(abs_root, filesys),
                      entries |-> acc.entries
                          \o DirEntries(abs_root, filesys, wd, patterns, top)]
         IN  Walk(SetToSeq(KeptDirs(abs_root, filesys, wd, patterns))
                      \o Tail(todo),
                  next, filesys, wd, patterns, top)

\* on_config (src), the walk of the working directory
SrcWalk ==
    /\ pc = "walk"
    /\ variant = "src"
    /\ LET done == Walk(<<cwd>>,
                        [walked |-> {}, tested |-> {}, entries |-> << >>],
                        fs, cwd, exclusion_patterns, example)
       IN  /\ walked' = done.walked
           /\ tested' = done.tested
           /\ archive' = done.entries
    /\ pc' = "synthetic"
    /\ UNCHANGED << variant, invalid_paths, plugin, is_serve, cwd, fs, config,
                    abs_projects_dir, loaded_configs, reports, detected,
                    prompted, example, site_dir, exclusion_patterns, zipfile,
                    exit_code, call, ret >>

\* ---------------------------------------------------------------------------
\* Assembly, material
\* ---------------------------------------------------------------------------

\* mkdocs.structure.files.get_files(config): the files below docs_dir
GetFiles(cfg, filesys) ==
    { f \in filesys.files : StartsWith(f, cfg.docs_dir \o <<Sep>>) }

\* the paths the material copy hands to ZipFile.write, in order
MatSources(cfg, loaded, filesys, wd) ==
    SelectSeq(<<MkdocsYml, RequirementsTxt>>, LAMBDA q : IsFile(q, filesys, wd))
    \o [k \in 1..Len(MatCandidates(cfg, loaded)) - 1 |->
            Relpath(MatCandidates(cfg, loaded)[k + 1], <<".">>, wd)]
    \o [k \in 1..Len(SetToSeq(GetFiles(cfg, filesys))) |->
            Relpath(SetToSeq(GetFiles(cfg, filesys))[k], <<".">>, wd)]

\* on_config (material), the files written to the archive; ZipFile.write
\* raises when a path does not exist
MatAssemble ==
    /\ pc = "assemble"
    /\ variant = "material"
    /\ LET sources == MatSources(config, loaded_configs, fs, cwd)
       IN  IF \E k \in 1..Len(sources) : ~Exists(sources[k], fs, cwd)
           THEN pc' = "raised" /\ archive' = archive
           ELSE /\ pc' = "synthetic"
                /\ archive' = [k \in 1..Len(sources) |->
                       ZipWriteEntry(sources[k],
                                     PathJoin(example, sources[k]), cwd)]
    /\ UNCHANGED << variant, invalid_paths, plugin, is_serve, cwd, fs, config,
                    abs_projects_dir, loaded_configs, reports, detected,
                    prompted, example, site_dir, exclusion_patterns, walked,
                    tested, zipfile, exit_code, call, ret >>

\* ---------------------------------------------------------------------------
\* The end of on_config (the same lines in both copies)
\* ---------------------------------------------------------------------------

\* the generated entries tested against the patterns like the files of the
\* walk, which C13 rules out
AddSyntheticUnlessExcluded ==
    /\ pc = "synthetic"
    /\ archive' = archive
           \o SelectSeq(SyntheticEntries(example),
                  LAMBDA e : ~IsExcluded(
                      <<Sep>> \o SubSeq(e.name, Len(example) + 2, Len(e.name)),
                      exclusion_patterns))
    /\ pc' = "write"
    /\ UNCHANGED << variant, invalid_paths, plugin, is_serve, cwd, fs, config,
                    abs_projects_dir, loaded_configs, reports, detected,
                    prompted, example, site_dir, exclusion_patterns, walked,
                    tested, zipfile, exit_code, call, ret >>

\* on_config, the two generated entries
AddSynthetic ==
    /\ pc = "synthetic"
    /\ archive' = archive \o SyntheticEntries(example)
    /\ pc' = "write"
    /\ UNCHANGED << variant, invalid_paths, plugin, is_serve, cwd, fs, config,
                    abs_projects_dir, loaded_configs, reports, detected,
                    prompted, example, site_dir, exclusion_patterns, walked,
                    tested, zipfile, exit_code, call, ret >>

ZipSuffix == <<".", "z", "i", "p">>

\* on_config, "Finally, write archive to disk", the summary and sys.exit(1)
WriteArchive ==
    /\ pc = "write"
    /\ zipfile' = << [name |-> example \o ZipSuffix, entries |-> archive] >>
    /\ fs' = [fs EXCEPT !.files = @ \cup {Abspath(example \o ZipSuffix, cwd)}]
    /\ pc' = "exited"
    /\ exit_code' = <<1>>
    /\ UNCHANGED << variant, invalid_paths,
                    plugin, is_serve, cwd, config, abs_projects_dir,
                    loaded_configs, reports, detected, prompted, example,
                    site_dir, exclusion_patterns, walked, tested, archive,
                    call, ret >>

\* ---------------------------------------------------------------------------
\* The run of the plugin
\* ---------------------------------------------------------------------------

Next ==
    \/ \E command \in Commands : OnStartup(command)
    \/ OnConfigGate
    \/ SrcPrepare
    \/ SrcValidate
    \/ MatPrepare
    \/ MatExtensions
    \/ MatValidate
    \/ \E current \in LatestVersions : CheckVersion(current)
    \/ CheckArchive
    \/ \E index \in {0, 1} : CheckCustomDir(index)
    \/ \E hooks \in { << >>, << <<"h">> >> } : CheckHooks(hooks)
    \/ \E label \in Labels : Prompt(label)
    \/ \E static \in StaticPatterns, site \in SiteDirs :
          SrcPatterns(static, site)
    \/ SrcWalk
    \/ MatAssemble
    \/ AddSynthetic
    \/ WriteArchive

Spec == Init /\ [][Next]_vars

\* ---------------------------------------------------------------------------
\* _resolve_pattern called on its own
\* ---------------------------------------------------------------------------

\* the variables of a run of the plugin, while a helper is called on its own
NoPluginRun ==
    /\ InitRun
    /\ variant = "src"
    /\ plugin = [enabled |-> FALSE, enabled_on_serve |-> FALSE,
                 archive |-> FALSE, archive_stop_on_violation |-> FALSE,
                 root_dir |-> Empty]
    /\ config = [config_file_path |-> Empty, docs_dir |-> Empty,
                 projects_dir |-> None, mdx_paths |-> << >>]

\* the working directories _resolve_pattern is called in
ResolveCwds == { <<Sep>>, P(<< <<"p">> >>), P(<< <<"p">>, <<"q">> >>) }

\* the names below the working directory
ResolveNames == { <<"a">>, <<"s">>, <<"p">>, <<"a", ".", "b">> }

\* every directory above path, and the root
RECURSIVE Ancestors(_)
Ancestors(path) ==
    IF Dirname(path) = path THEN {path}
    ELSE {Dirname(path)} \cup Ancestors(Dirname(path))

\* a filesystem holding path as a regular file ("file"), as a directory
\* ("dir") or not at all ("missing")
FSWith(path, kind) ==
    [dirs |-> Ancestors(path) \cup (IF kind = "dir" THEN {path} ELSE {}),
     files |-> IF kind = "file" THEN {path} ELSE {},
     yaml |-> << >>]

InitResolve ==
    /\ NoPluginRun
    /\ ret = NotRun
    /\ cwd \in ResolveCwds
    /\ \E name \in ResolveNames, sub \in ResolveNames,
          kind \in {"file", "dir", "missing"}, depth \in 0..2 :
          LET abspath == CASE depth = 0 -> cwd
                           [] depth = 1 -> PathJoin(cwd, name)
                           [] depth = 2 -> PathJoin(PathJoin(cwd, sub), name)
          IN  /\ fs = IF depth = 0 THEN FSWith(PathJoin(cwd, name), kind)
                      ELSE FSWith(abspath, kind)
              /\ call = [fn |-> "_resolve_pattern", abspath |-> abspath]

\* _resolve_pattern(abspath)
ResolveCall ==
    /\ pc = "init"
    /\ call.fn = "_resolve_pattern"
    /\ ret' = [fn |-> "_resolve_pattern",
               value |-> ResolvePattern(call.abspath, fs, cwd)]
    /\ pc' = "returned"
    /\ UNCHANGED << variant, plugin, is_serve, cwd, fs, config,
                    abs_projects_dir, loaded_configs, invalid_paths, reports,
                    detected, prompted, example, site_dir, exclusion_patterns,
                    walked, tested, archive, zipfile, exit_code, call >>

NextResolve == ResolveCall

SpecResolve == InitResolve /\ [][NextResolve]_vars

\* ---------------------------------------------------------------------------
\* _load_yaml called on its own, on any three configuration files m, b and c
\* of /p: each fails to parse, is empty, or is a mapping that may name as its
\* parent one of the three, a directory, a missing file, or a file outside /p
\* ---------------------------------------------------------------------------

LoadFiles ==
    << P(<< <<"p">>, <<"m">> >>), P(<< <<"p">>, <<"b">> >>),
       P(<< <<"p">>, <<"c">> >>) >>

LoadInherits ==
    { <<"m">>, <<"b">>, <<"c">>, <<"x">>, <<"d">>,
      <<".", ".", "/", "o", "/", "b">> }

\* what the parser may make of the file `name`
LoadDocs(name) ==
    { [parse |-> "error"], [parse |-> "empty"], YamlMap(name, None) }
    \cup { YamlMap(name, inherit) : inherit \in LoadInherits }

LoadFS(dm, db, dc) ==
    [dirs |-> { <<Sep>>, P(<< <<"p">> >>), P(<< <<"p">>, <<"d">> >>),
                P(<< <<"o">> >>) },
     files |-> { LoadFiles[1], LoadFiles[2], LoadFiles[3],
                 P(<< <<"o">>, <<"b">> >>) },
     yaml |-> (LoadFiles[1] :> dm) @@ (LoadFiles[2] :> db)
              @@ (LoadFiles[3] :> dc)
              @@ (P(<< <<"o">>, <<"b">> >>)
                    :> YamlMap(P(<< <<"o">>, <<"b">> >>), None))]

InitLoad ==
    /\ NoPluginRun
    /\ ret = NotRun
    /\ cwd = P(<< <<"p">> >>)
    /\ \E dm \in LoadDocs(LoadFiles[1]), db \in LoadDocs(LoadFiles[2]),
          dc \in LoadDocs(LoadFiles[3]) : fs = LoadFS(dm, db, dc)
    /\ \E source_path \in { LoadFiles[1], <<"m">> } :
          call = [fn |-> "_load_yaml", source_path |-> source_path]

\* _load_yaml(source_path)
LoadCall ==
    /\ pc = "init"
    /\ call.fn = "_load_yaml"
    /\ ret' = [fn |-> "_load_yaml",
               value |-> LoadYaml(call.source_path, fs, cwd, 1)]
    /\ pc' = "returned"
    /\ UNCHANGED << variant, plugin, is_serve, cwd, fs, config,
                    abs_projects_dir, loaded_configs, invalid_paths, reports,
                    detected, prompted, example, site_dir, exclusion_patterns,
                    walked, tested, archive, zipfile, exit_code, call >>

NextLoad == LoadCall

SpecLoad == InitLoad /\ [][NextLoad]_vars

\* ---------------------------------------------------------------------------
\* Properties
\* ---------------------------------------------------------------------------

Range(seq) == { seq[k] : k \in 1..Len(seq) }

Count(x, seq) == Cardinality({ k \in 1..Len(seq) : seq[k] = x })

\* path lies strictly below the directory dir
Under(path, dir) ==
    /\ path # dir
    /\ StartsWith(path, IF EndsWith(dir, <<Sep>>) THEN dir ELSE dir \o <<Sep>>)

\* the validation step has run
Validated == invalid_paths # Unset

\* the candidates of the validation step that ran, and which of them the
\* copy that ran holds to violate the project root
Candidates ==
    IF variant = "src"
    THEN SrcCandidates(config, abs_projects_dir, loaded_configs)
    ELSE MatCandidates(config, loaded_configs)

Violating(path) ==
    IF variant = "src" THEN ~Removable(path, cwd)
    ELSE MatInvalid(path, fs, cwd)

\* the four candidates the specification names: the configuration file, the
\* documentation directory, the projects directory and every INHERIT value
NamedCandidates ==
    { config.config_file_path, config.docs_dir, abs_projects_dir }
    \cup { GetInherit(loaded_configs[k]) : k \in 1..Len(loaded_configs) }

\* C1: once validation has run, the paths reported as violations are exactly
\* the non-empty candidates (configuration file, documentation directory,
\* projects directory, every INHERIT value) that do not start with the
\* working directory or do not exist on disk.
C1_ViolationsAreOutsideOrMissing ==
    Validated =>
        Range(invalid_paths) =
            { p \in NamedCandidates :
                p # Empty /\ (~StartsWith(p, cwd) \/ ~Exists(p, fs, cwd)) }

ExcludedDir(d) ==
    /\ d \in fs.dirs
    /\ Under(d, cwd)
    /\ IsExcluded(ResolvePattern(d, fs, cwd), exclusion_patterns)

ArchivedSources == { archive[k].source : k \in 1..Len(archive) }

\* C3: the walk never enters an excluded directory: nothing below an excluded
\* directory is yielded, tested against the patterns or written to the
\* archive, whether or not its own path matches a pattern.
C3_ExcludedDirectoriesArePruned ==
    variant = "src" =>
        \A p \in walked \cup tested \cup ArchivedSources :
            ~\E d \in fs.dirs : ExcludedDir(d) /\ Under(p, d)

C3_Witness ==
    /\ variant = "src"
    /\ pc = "synthetic"
    /\ \E d \in tested, f \in fs.files :
          /\ ExcludedDir(d)
          /\ Under(f, d)
          /\ ~IsExcluded(ResolvePattern(f, fs, cwd), exclusion_patterns)
          /\ f \notin tested

IsSynthetic(entry) == entry.source = ZipWritestrEntry(Empty).source

\* the files below the working directory that are not excluded, neither by
\* their own path nor by a directory above them
NotExcludedFiles ==
    { f \in fs.files :
        /\ Under(f, cwd)
        /\ ~IsExcluded(ResolvePattern(f, fs, cwd), exclusion_patterns)
        /\ ~\E d \in fs.dirs : ExcludedDir(d) /\ Under(f, d) }

\* what C4 asks of the sequence `files` of entries written with ZipFile.write
ExactlyNotExcluded(files) ==
    /\ { files[k].source : k \in 1..Len(files) } = NotExcludedFiles
    /\ \A f \in NotExcludedFiles :
          Count(f, [k \in 1..Len(files) |-> files[k].source]) = 1

\* C4: when the archive is about to be written, its file entries are exactly
\* the non-excluded files below the working directory, each once, and every
\* file entry is stored below the top-level folder {version}-{slug}/ at its
\* path relative to the working directory, never outside that folder.
C4_EntriesBelowTopFolder ==
    pc = "write" =>
        LET files == SelectSeq(archive, LAMBDA e : ~IsSynthetic(e))
        IN  /\ ExactlyNotExcluded(files)
            /\ \A k \in 1..Len(files) :
                  /\ StartsWith(files[k].name, example \o <<Sep>>)
                  /\ files[k].name =
                         PathJoin(example,
                                  Relpath(files[k].source, <<".">>, cwd))

\* C5: when the site directory lies below the working directory, nothing
\* below it is written to the archive, whatever its name and depth.
C5_SiteDirIsExcluded ==
    (variant = "src" /\ pc = "write" /\ Under(site_dir, cwd)) =>
        \A p \in ArchivedSources : ~Under(p, site_dir)

\* C7: with archive_stop_on_violation on, once a violation is detected the
\* process has exited with a non-zero status after the report, and neither
\* the prompt has been issued nor any archive written.
C7_StopOnViolation ==
    (plugin.archive_stop_on_violation /\ detected) =>
        /\ pc = "exited"
        /\ exit_code = <<1>>
        /\ reports # << >>
        /\ ~prompted
        /\ archive = << >>
        /\ zipfile = << >>

C7_Witness ==
    /\ plugin.archive_stop_on_violation
    /\ detected
    /\ pc = "exited"
    /\ reports[Len(reports)].kind = "customizations"

\* some candidate of the validation that ran lies outside the project root
OutsideCandidates ==
    { p \in Range(Candidates) : p # Empty /\ ~StartsWith(p, cwd) }

ReportedPaths == UNION { Range(reports[k].paths) : k \in 1..Len(reports) }

C8_Pre ==
    /\ Validated
    /\ ~plugin.archive_stop_on_violation
    /\ plugin.archive
    /\ OutsideCandidates # {}

C8_Done ==
    /\ pc = "exited"
    /\ zipfile # << >>
    /\ \A e \in Range(SyntheticEntries(example)) :
          e \in Range(zipfile[1].entries)
    /\ OutsideCandidates \subseteq ReportedPaths

\* C8: with archive_stop_on_violation off and archive on, a run whose
\* validation finds a candidate outside the project root reports it and
\* eventually writes the archive file, the two generated entries included,
\* instead of ending in an uncaught exception.
C8_ArchiveWrittenDespiteViolation == [](C8_Pre => <>C8_Done)

C8_Witness == C8_Pre /\ C8_Done

ValidationKinds == {"not_in_cwd", "bad_cwd", "bad_extensions", "bad_paths"}

\* every path the copy that runs validates and holds to violate the project
\* root, whether or not the run has come to check it
AllViolating ==
    IF variant = "src"
    THEN { p \in Range(Candidates) : Violating(p) }
    ELSE LET loaded == LoadYaml(config.config_file_path, fs, cwd, 1)
             config_dir == Dirname(config.config_file_path)
         IN  (IF plugin.root_dir = Empty /\ ~StartsWith(config_dir, cwd)
              THEN {config_dir} ELSE {})
             \cup Range(MatInvalidExtensions(config.mdx_paths, fs, cwd))
             \cup (IF loaded.type = "raise" THEN {}
                   ELSE { p \in Range(MatCandidates(config,
                                                    LoadedList(loaded))) :
                            MatInvalid(p, fs, cwd) })

ValidationReports ==
    SelectSeq(reports, LAMBDA r : r.kind \in ValidationKinds)

\* C9: validation does not stop at the first check that fails: when the run
\* has reported a validation failure and has exited or gone on past
\* validation, the reports name every violating candidate.
C9_ReportNamesEveryViolation ==
    (ValidationReports # << >> /\ (pc = "exited" \/ Validated)) =>
        AllViolating
            \subseteq UNION { Range(ValidationReports[k].paths) :
                                k \in 1..Len(ValidationReports) }

\* the positions of a run, and those a run ends at: on_config has returned,
\* the process has exited, or an exception has left on_config
Terminal == {"returned", "exited", "raised"}

Positions ==
    {"init", "startup", "prepare", "extensions", "validate", "version",
     "archive", "custom_dir", "hooks", "prompt", "patterns", "assemble",
     "walk", "synthetic", "write"} \cup Terminal

\* the interpreter runs the next statement: the position of the run changes
Advance == pc \notin Terminal /\ pc' \in Positions

\* a run does not halt between two statements: on_config is plain sequential
\* code, the network request and input() are taken to return
SpecLive == Spec /\ WF_pc(Advance)

\* ---------------------------------------------------------------------------
\* Properties of _resolve_pattern and _load_yaml
\* ---------------------------------------------------------------------------

ResolveReturned == pc = "returned" /\ ret.fn = "_resolve_pattern"

\* abspath is an entry of the working directory
OneLevelBelow(abspath) == abspath # cwd /\ Dirname(abspath) = cwd

Basename(path) == SubSeq(path, RFindSep(path) + 1, Len(path))

\* "name" or "name/"
NameOrNameSlash(abspath) ==
    IF IsFile(abspath, fs, cwd) THEN Basename(abspath)
    ELSE Basename(abspath) \o <<Sep>>

\* C6 as stated: _resolve_pattern yields "/" for the working directory, and
\* for an entry of the working directory "name/" if it is a directory or does
\* not exist, "name" if it is a regular file.
C6_NameWithoutLeadingSlash ==
    ResolveReturned =>
        /\ call.abspath = cwd => ret.value = <<Sep>>
        /\ OneLevelBelow(call.abspath) =>
               ret.value = NameOrNameSlash(call.abspath)

\* C6, amended: _resolve_pattern yields "/" for the working directory, and
\* for an entry of the working directory "/name/" if it is a directory or
\* does not exist, "/name" if it is a regular file: the leading separator
\* stays, and is absent only when the working directory is the root "/".
C6_NameWithLeadingSlash ==
    ResolveReturned =>
        /\ call.abspath = cwd => ret.value = <<Sep>>
        /\ OneLevelBelow(call.abspath) =>
               ret.value = (IF cwd = <<Sep>> THEN Empty ELSE <<Sep>>)
                               \o NameOrNameSlash(call.abspath)

C6_Witness ==
    /\ ResolveReturned
    /\ cwd # <<Sep>>
    /\ OneLevelBelow(call.abspath)
    /\ ~Exists(call.abspath, fs, cwd)
    /\ ret.value = <<Sep>> \o Basename(call.abspath) \o <<Sep>>

LoadReturned == pc = "returned" /\ ret.fn = "_load_yaml"

\* the existing path a configuration file names as its parent, None when it
\* names none
LoadParent(path) ==
    LET doc == fs.yaml[Abspath(path, cwd)]
    IN  IF doc.parse = "ok" /\ "INHERIT" \in DOMAIN doc.data
        THEN LET parent == Normpath(PathJoin(Dirname(path), doc.data.INHERIT))
             IN  IF Exists(parent, fs, cwd) THEN parent ELSE None
        ELSE None

\* the files from path up along the parent-references; the chain ends in
\* None when it comes to a directory or back to a file it holds
RECURSIVE LoadChain(_, _)
LoadChain(path, seen) ==
    IF ~IsFile(path, fs, cwd) \/ Abspath(path, cwd) \in seen THEN << None >>
    ELSE IF LoadParent(path) = None THEN << path >>
    ELSE << path >>
         \o LoadChain(LoadParent(path), seen \cup {Abspath(path, cwd)})

\* fragment is what _load_yaml makes of the file path
IsFragmentOf(fragment, path) ==
    /\ fragment.type = "dict"
    /\ LET doc == fs.yaml[Abspath(path, cwd)]
       IN  IF doc.parse = "ok"
           THEN /\ "site_name" \in DOMAIN fragment.items
                /\ fragment.items.site_name = doc.data.site_name
           ELSE fragment = EmptyDict

\* C10: _load_yaml returns a single mapping when the file names no parent or
\* one that does not exist; for a chain of n >= 2 existing files it returns a
\* list of exactly n fragments, from the given file to the last ancestor.
C10_ChainOrder ==
    LoadReturned =>
        LET chain == LoadChain(call.source_path, {})
        IN  chain[Len(chain)] # None =>
                IF Len(chain) = 1
                THEN IsFragmentOf(ret.value, chain[1])
                ELSE /\ ret.value.type = "list"
                     /\ Len(ret.value.elems) = Len(chain)
                     /\ \A k \in 1..Len(chain) :
                           IsFragmentOf(ret.value.elems[k], chain[k])

C10_Witness ==
    /\ LoadReturned
    /\ Len(LoadChain(call.source_path, {})) = 4
    /\ LoadChain(call.source_path, {})[4] # None
    /\ ret.value.type = "list"
    /\ Len(ret.value.elems) = 4

\* the fragments of a value _load_yaml returned
Fragments(value) ==
    IF value.type = "list" THEN Range(value.elems)
    ELSE IF value.type = "dict" THEN {value}
    ELSE {}

\* the file a fragment was read from: the model's files carry their own path
\* as site_name
FileOf(fragment) == fragment.items.site_name

\* C11: after _load_yaml returns, every fragment of the result that has an
\* INHERIT field holds an absolute path in it: the value of the file,
\* resolved against the directory of that file.
C11_InheritIsAbsolute ==
    LoadReturned =>
        \A fragment \in Fragments(ret.value) :
            "INHERIT" \in DOMAIN fragment.items =>
                /\ IsAbs(fragment.items.INHERIT)
                /\ fragment.items.INHERIT =
                       Normpath(PathJoin(Dirname(FileOf(fragment)),
                           fs.yaml[FileOf(fragment)].data.INHERIT))

\* the k-th fragment of a value _load_yaml returned
FragmentAt(value, k) == IF value.type = "list" THEN value.elems[k] ELSE value

\* some file of the chain is empty or is not YAML
ChainHasNoDocument(chain) ==
    \E k \in 1..Len(chain) : fs.yaml[Abspath(chain[k], cwd)].parse # "ok"

\* C12: when a file of the chain is not YAML, or is empty, _load_yaml does
\* not raise: that file gives the empty mapping (never None), and the
\* fragments loaded before it are kept.
C12_ParseErrorsAreSwallowed ==
    LoadReturned =>
        LET chain == LoadChain(call.source_path, {})
        IN  (chain[Len(chain)] # None /\ ChainHasNoDocument(chain)) =>
                /\ ret.value.type \in {"dict", "list"}
                /\ ret.value.type = "list" => Len(ret.value.elems) = Len(chain)
                /\ ret.value.type = "dict" => Len(chain) = 1
                /\ \A k \in 1..Len(chain) :
                      IF fs.yaml[Abspath(chain[k], cwd)].parse = "ok"
                      THEN IsFragmentOf(FragmentAt(ret.value, k), chain[k])
                      ELSE FragmentAt(ret.value, k) = EmptyDict

C12_Witness ==
    /\ LoadReturned
    /\ ret.value.type = "list"
    /\ Len(ret.value.elems) = 3
    /\ Len(LoadChain(call.source_path, {})) = 3
    /\ fs.yaml[Abspath(LoadChain(call.source_path, {})[3], cwd)].parse
           = "error"
    /\ ret.value.elems[3] = EmptyDict
    /\ "site_name" \in DOMAIN ret.value.elems[1].items

\* the names of the two generated entries, below the top-level folder
SyntheticNames ==
    { PathJoin(example, RequirementsLock), PathJoin(example, PlatformJson) }

\* C13: every archive that is written holds requirements.lock.txt and
\* platform.json below the top-level folder, whatever the patterns and the
\* project: the two entries come last, after the files, each once, also when
\* a pattern matches their names.
C13_SyntheticEntriesAlwaysPresent ==
    zipfile # << >> =>
        LET entries == zipfile[1].entries
            n == Len(entries)
        IN  /\ n >= 2
            /\ { entries[n - 1].name, entries[n].name } = SyntheticNames
            /\ entries[n - 1].name # entries[n].name
            /\ IsSynthetic(entries[n - 1]) /\ IsSynthetic(entries[n])
            /\ \A k \in 1..(n - 2) : ~IsSynthetic(entries[k])

\* an archive written although a pattern matches the names of both entries
C13_Witness ==
    /\ variant = "src"
    /\ zipfile # << >>
    /\ IsExcluded(<<Sep>> \o RequirementsLock, exclusion_patterns)
    /\ IsExcluded(<<Sep>> \o PlatformJson, exclusion_patterns)
    /\ \E k \in 1..Len(zipfile[1].entries) :
          zipfile[1].entries[k].name = PathJoin(example, PlatformJson)

\* on_config has gone past its two early returns
Active == pc \notin {"init", "startup"} /\ ~SkipsRun

\* C14: an active run never returns to mkdocs: when it has ended, the
\* process has exited with a non-zero status, after the archive was written,
\* or with archive off after the version check (no prompt, no archive), or
\* after a violation.
C14_ActiveRunExits ==
    (Active /\ pc \in Terminal) =>
        /\ pc = "exited"
        /\ exit_code = <<1>>
        /\ ~plugin.archive => (~prompted /\ zipfile = << >>)
        /\ \/ zipfile # << >>
           \/ ~plugin.archive
           \/ detected /\ plugin.archive_stop_on_violation
           \/ variant = "material" /\ plugin.root_dir # Empty

\* root_dir as _change_cwd resolves it: as it is when absolute, else against
\* the directory of the configuration file
ResolvedRootDir ==
    IF IsAbs(plugin.root_dir) THEN plugin.root_dir
    ELSE Normpath(PathJoin(Dirname(config.config_file_path), plugin.root_dir))

\* C15: when root_dir is set and resolves to an existing directory, the
\* working directory after _change_cwd is that directory, wherever the
\* process was started, and nothing has been validated before the change.
C15_WorkingDirectoryIsRootDir ==
    (variant = "material" /\ plugin.root_dir # Empty /\ Active
         /\ IsAbs(ResolvedRootDir) /\ IsDir(ResolvedRootDir, fs, cwd)) =>
        /\ pc = "prepare" => (reports = << >> /\ ~Validated)
        /\ pc # "prepare" => (pc # "raised" /\ cwd = ResolvedRootDir)

\* enabled is off, or the site is served and enabled_on_serve is off
GateClosed == ~plugin.enabled \/ (is_serve /\ ~plugin.enabled_on_serve)

\* nothing of a run has happened
NoEffect ==
    /\ reports = << >> /\ ~detected /\ ~Validated /\ loaded_configs = << >>
    /\ ~prompted /\ archive = << >> /\ zipfile = << >> /\ exit_code = << >>
    /\ walked = {} /\ tested = {}

\* C16: with enabled off, or with the command "serve" and enabled_on_serve
\* off, on_config returns at once and changes nothing: nothing is validated,
\* requested, prompted, written or exited, and working directory,
\* configuration and files are as before; otherwise the run proceeds.
C16_GateHasNoEffect ==
    /\ [][pc = "startup" =>
            IF GateClosed
            THEN /\ pc' = "returned"
                 /\ UNCHANGED << variant, plugin, is_serve, cwd, fs, config,
                                 abs_projects_dir, loaded_configs,
                                 invalid_paths, reports, detected, prompted,
                                 example, site_dir, exclusion_patterns,
                                 walked, tested, archive, zipfile, exit_code,
                                 call, ret >>
            ELSE pc' = "prepare"]_vars
    /\ [](pc = "returned" => (GateClosed /\ NoEffect))
    /\ [](pc \in Positions \ {"init", "startup", "returned"} => ~GateClosed)

C16_Witness ==
    /\ pc = "returned"
    /\ plugin.enabled
    /\ is_serve
    /\ ~plugin.enabled_on_serve
    /\ NoEffect

\* ---------------------------------------------------------------------------
\* The validation loop of on_config (src) run on its own, on any list of
\* candidates: empty paths, paths in the working directory /p, paths outside
\* it, and a path outside it that starts with its name
\* ---------------------------------------------------------------------------

\* the longest list of candidates
MaxCandidates == 4

LoopPaths ==
    { Empty, P(<< <<"p">>, <<"d">> >>), P(<< <<"o">>, <<"d">> >>),
      P(<< <<"p", "q">> >>) }

InitLoop ==
    /\ NoPluginRun
    /\ ret = NotRun
    /\ cwd = P(<< <<"p">> >>)
    /\ fs = ProjectFS(None)
    /\ \E n \in 0..MaxCandidates : \E paths \in [1..n -> LoopPaths] :
          call = [fn |-> "validate", paths_to_validate |-> paths]

\* "for path in reversed(paths_to_validate): ..."
LoopCall ==
    /\ pc = "init"
    /\ call.fn = "validate"
    /\ ret' = [fn |-> "validate",
               value |-> SrcViolations(call.paths_to_validate, cwd),
               visits |-> ReversedRemoveVisits(call.paths_to_validate,
                              Len(call.paths_to_validate), cwd)]
    /\ pc' = "returned"
    /\ UNCHANGED << variant, plugin, is_serve, cwd, fs, config,
                    abs_projects_dir, loaded_configs, invalid_paths, reports,
                    detected, prompted, example, site_dir, exclusion_patterns,
                    walked, tested, archive, zipfile, exit_code, call >>

NextLoop == LoopCall

SpecLoop == InitLoop /\ [][NextLoop]_vars

LoopReturned == pc = "returned" /\ ret.fn = "validate"

\* C17: for every list of candidates the loop over reversed(paths_to_validate)
\* that removes from the same list reads one index per element, none of them
\* past the end of the list, and leaves the non-empty paths that do not start
\* with the working directory, in their order and as often as they occurred:
\* the result of a plain filter.
C17_LoopIsAFilter ==
    LoopReturned =>
        /\ ret.value = SelectSeq(call.paths_to_validate,
               LAMBDA path : path # Empty /\ ~StartsWith(path, cwd))
        /\ Len(ret.visits) = Len(call.paths_to_validate)
        /\ \A k \in 1..Len(ret.visits) :
              1 <= ret.visits[k].index
                  /\ ret.visits[k].index <= ret.visits[k].length

\* a list with a path twice, both in and outside the working directory
C17_Witness ==
    /\ LoopReturned
    /\ Len(call.paths_to_validate) = MaxCandidates
    /\ \E i, j \in 1..Len(call.paths_to_validate) :
          /\ i < j
          /\ call.paths_to_validate[i] = call.paths_to_validate[j]
          /\ Removable(call.paths_to_validate[i], cwd)
    /\ \E i \in 1..Len(ret.value) : Count(ret.value[i], ret.value) = 2
    /\ Len(ret.value) < Len(call.paths_to_validate)

\* the parent-references from path lead to a directory
RECURSIVE LoadReachesDirectory(_, _)
LoadReachesDirectory(path, seen) ==
    IF IsDir(path, fs, cwd) THEN TRUE
    ELSE IF Abspath(path, cwd) \in seen \/ LoadParent(path) = None THEN FALSE
    ELSE LoadReachesDirectory(LoadParent(path),
                              seen \cup {Abspath(path, cwd)})

\* C18: for every set of configuration files and parent-references,
\* _load_yaml returns a mapping or a list of mappings, also when a file
\* names itself as its parent or the parent-references form a cycle.
C18_LoadReturnsOnCycles ==
    (LoadReturned /\ ~LoadReachesDirectory(call.source_path, {})) =>
        ret.value.type \in {"dict", "list"}

====
